---- MODULE Spec2Model ----
(***************************************************************************)
(* Prior-authorization core of PreAuth_Agent:                              *)
(*   - ReasoningAgent._local_reasoning (core/reasoning_agent.py), the      *)
(*     rule-based decision engine, stepped check by check;                 *)
(*   - FAISSManager (core/faiss_manager.py), the vector index and its      *)
(*     offset -> document map;                                             *)
(*   - EndToEndPriorAuth (core/end_to_end_flow.py), the pipeline from the  *)
(*     patient fetch to the logged decision, and its batch loop;          *)
(*   - PriorAuthLogger (database/mongo_logger.py), the JSON log file and  *)
(*     the statistics file, written by one caller or by two at once;      *)
(*   - the endpoint POST /prior-authorization/{patient_id} of             *)
(*     api/routes.py around the pipeline.                                 *)
(* Python strings are TLA+ strings; str.upper, str.lower, the `in`         *)
(* operator, slicing and the lab-value regular expression are computed     *)
(* character by character.                                                 *)
(***************************************************************************)
EXTENDS Integers, Sequences, FiniteSets, TLC

VARIABLES
    pc,                  \* position inside make_authorization_decision
    patient_data,        \* the patient dict handed to the agent
    sop_context,         \* the policy text handed to the agent
    diagnosis_code,      \* locals of _local_reasoning
    procedure_code,
    age,
    lab_results,
    previous_procedures,
    sop_upper,
    decision,
    reasoning_points,
    result,              \* the dict returned to the caller
    fm_index,            \* FAISSManager.index: None or the flat L2 index
    document_map,        \* FAISSManager.document_map: offset -> {name, index}
    embedding_dim,       \* FAISSManager.embedding_dim
    index_file,          \* the persisted index file
    metadata_file,       \* the persisted metadata file
    last,                \* the last FAISSManager call and what it gave
    embeddings_file,     \* the persisted embeddings: missing, corrupt or ok
    sop_texts,           \* EndToEndPriorAuth.sop_texts: file name -> text
    pa_system,           \* the global pa_system of api/routes.py
    e2e_pc,              \* position inside process_prior_authorization
    caller,              \* who called process_prior_authorization
    patient_id,          \* its arguments and locals
    log_decision,
    best_sop,
    sop_text,
    decision_result,
    sink,                \* what logger.log_decision did: none, ok or raised
    e2e_result,          \* what process_prior_authorization returned
    patient_ids,         \* batch_process: its argument and locals
    batch_i,
    results,
    batch_pc,
    log_file,            \* authorization_logs.json: absent or a list of records
    stats_file,          \* decision_stats.json: absent or the counters
    now,                 \* the clock datetime.utcnow() reads
    lg_pc,               \* position of each caller inside log_decision
    lg_record,           \* its argument, stamped
    lg_logs,             \* its local list `logs`
    lg_stats,            \* the local dict `stats` of _update_stats
    lg_ret,              \* what log_decision returned to it
    lg_answer,           \* what the last query_logs / get_decision_stats gave
    http_patient,        \* the patient_id of the last request to the endpoint
    http_status          \* the status it was answered with, 0 while it runs

agentVars == <<pc, patient_data, sop_context, diagnosis_code, procedure_code,
               age, lab_results, previous_procedures, sop_upper, decision,
               reasoning_points, result>>

indexVars == <<fm_index, document_map, embedding_dim, index_file, metadata_file, last>>

reqVars == <<caller, patient_id, log_decision, best_sop, sop_text, decision_result,
             sink, e2e_result>>

batchVars == <<patient_ids, batch_i, results, batch_pc>>

pipeVars == <<embeddings_file, sop_texts, pa_system, e2e_pc, reqVars, batchVars>>

logVars == <<log_file, stats_file, now, lg_pc, lg_record, lg_logs, lg_stats, lg_ret,
             lg_answer>>

httpVars == <<http_patient, http_status>>

vars == <<agentVars, indexVars, pipeVars, logVars, httpVars>>

-----------------------------------------------------------------------------
(* Python str operations *)

LowerChars == "abcdefghijklmnopqrstuvwxyz"
UpperChars == "ABCDEFGHIJKLMNOPQRSTUVWXYZ"
Digits == "0123456789"

\* position of the one-character string c in s, 0 when absent
IndexOfChar(c, s) ==
    LET at == {i \in 1..Len(s) : SubSeq(s, i, i) = c}
    IN  IF at = {} THEN 0 ELSE CHOOSE i \in at : \A j \in at : i <= j

\* the letters str.upper() and str.lower() change
UpperOf == [c \in {SubSeq(LowerChars, i, i) : i \in 1..Len(LowerChars)} |->
                LET i == IndexOfChar(c, LowerChars) IN SubSeq(UpperChars, i, i)]
LowerOf == [c \in {SubSeq(UpperChars, i, i) : i \in 1..Len(UpperChars)} |->
                LET i == IndexOfChar(c, UpperChars) IN SubSeq(LowerChars, i, i)]

UpperChar(c) == IF c \in DOMAIN UpperOf THEN UpperOf[c] ELSE c

LowerChar(c) == IF c \in DOMAIN LowerOf THEN LowerOf[c] ELSE c

\* str.upper(), str.lower(): split in halves to keep the evaluation shallow
RECURSIVE Upper(_)
Upper(s) ==
    IF Len(s) = 0 THEN ""
    ELSE IF Len(s) = 1 THEN UpperChar(s)
    ELSE Upper(SubSeq(s, 1, Len(s) \div 2)) \o Upper(SubSeq(s, Len(s) \div 2 + 1, Len(s)))

RECURSIVE Lower(_)
Lower(s) ==
    IF Len(s) = 0 THEN ""
    ELSE IF Len(s) = 1 THEN LowerChar(s)
    ELSE Lower(SubSeq(s, 1, Len(s) \div 2)) \o Lower(SubSeq(s, Len(s) \div 2 + 1, Len(s)))

\* Python `t in s` for strings: the empty string is in every string
IsSubstr(t, s) ==
    \E i \in 0..(Len(s) - Len(t)) : SubSeq(s, i + 1, i + Len(t)) = t

IsDigit(c) == IndexOfChar(c, Digits) # 0

RECURSIVE Pow10(_)
Pow10(n) == IF n = 0 THEN 1 ELSE 10 * Pow10(n - 1)

-----------------------------------------------------------------------------
(* Python values: a dict entry is absent, None, a str or an int *)

Absent == [kind |-> "absent", s |-> "", n |-> 0]
None == [kind |-> "none", s |-> "", n |-> 0]
PyStr(x) == [kind |-> "str", s |-> x, n |-> 0]
PyInt(x) == [kind |-> "int", s |-> "", n |-> x]

\* dict.get(key, default)
Get(d, key, default) == IF d[key].kind = "absent" THEN default ELSE d[key]

\* a decimal number num / 10^scale, or no number (Optional[float])
NoFloat == [some |-> FALSE, num |-> 0, scale |-> 0]
FloatTruthy(f) == f.some /\ f.num # 0
FloatGt(f, whole) == f.num > whole * Pow10(f.scale)
FloatLt(f, whole) == f.num < whole * Pow10(f.scale)

-----------------------------------------------------------------------------
(* Policy texts *)

\* the two guideline texts of the module's demonstration
test_sop ==
    "\n    DIABETES MANAGEMENT PRIOR AUTHORIZATION\n    \n    HbA1c Testing (CPT 83036):\n    - APPROVED if:\n      * Diabetes diagnosis (E11.x codes)\n      * HbA1c >7.0 requiring monitoring\n      * New medication initiation\n    - DENIED if:\n      * HbA1c <6.0 with stable control\n      * Testing within 30 days\n    "

cardiology_sop ==
    "\n    CARDIOLOGY PRIOR AUTHORIZATION GUIDELINES\n    \n    Echocardiogram (CPT 93306):\n    - APPROVED if:\n      * Patient age >50 with hypertension (ICD I10)\n      * Previous cardiac procedures documented\n      * Abnormal EKG findings\n    - DENIED if:\n      * Routine screening without symptoms\n      * Patient age <35 with no cardiac history\n    "

\* the text the pipeline substitutes when the policy store has none
NoSopContent == "No SOP content available"

SopTexts == {test_sop, cardiology_sop, NoSopContent, test_sop \o cardiology_sop}

\* sop_context.upper() and sop_context.lower() of each policy text, computed once
SopUpper == [s \in SopTexts |-> Upper(s)]
SopLower == [s \in SopTexts |-> Lower(s)]

-----------------------------------------------------------------------------
(* Patient records handed to the agent *)

\* at most this many of the six fields the agent reads are absent or None
MaxMalformed == 1

PatientKeys == {"diagnosis_code", "procedure_code", "age", "gender",
                "lab_results", "previous_procedures"}

Patients ==
    LET
        DiagnosisCodes == {"", "E11.9", "I10", "Z00.00"}
        ProcedureCodes == {"", "83036", "99395"}
        Ages == {30, 45, 60}
        Genders == {"Female"}
        LabResults == {"", "HbA1c:8.2;Cholesterol:190", "HbA1c:5.5", "HbA1c:0", "HbA1c:pending"}
        PreviousProcedures == {"", "99213;81001"}
        Malformed == {Absent, None}
        IsMalformed(v) == v.kind \in {"absent", "none"}
    IN
    {p \in [diagnosis_code : {PyStr(x) : x \in DiagnosisCodes} \cup Malformed,
            procedure_code : {PyStr(x) : x \in ProcedureCodes} \cup Malformed,
            age : {PyInt(x) : x \in Ages} \cup Malformed,
            gender : {PyStr(x) : x \in Genders} \cup Malformed,
            lab_results : {PyStr(x) : x \in LabResults} \cup Malformed,
            previous_procedures : {PyStr(x) : x \in PreviousProcedures} \cup Malformed] :
        Cardinality({k \in PatientKeys : IsMalformed(p[k])}) <= MaxMalformed}

-----------------------------------------------------------------------------
(* ReasoningAgent: the conditions of the six checks *)

\* diagnosis_code in sop_upper or diagnosis_code[:3] in sop_upper
DiagnosisMatches(dc, su) ==
    LET
        \* Python s[:n]
        Prefix(s, n) == SubSeq(s, 1, IF Len(s) < n THEN Len(s) ELSE n)
    IN
    IsSubstr(dc, su) \/ IsSubstr(Prefix(dc, 3), su)

\* procedure_code in sop_upper
ProcedureCovered(code, su) == IsSubstr(code, su)

\* age > 50 and "AGE >50" in sop_upper
AgeApproves(a, su) == a > 50 /\ IsSubstr("AGE >50", su)

\* age < 35 and "AGE <35" in sop_upper and "DENIED" in sop_upper
AgeDenies(a, su) == a < 35 /\ IsSubstr("AGE <35", su) /\ IsSubstr("DENIED", su)

\* re.search(rf'{lab_name}:(\d+\.?\d*)', lab_results, re.IGNORECASE): the
\* leftmost place where the marker, a colon and a digit follow one another
LabMatchStarts(lab, lab_name) ==
    {i \in 1..(Len(lab) - Len(lab_name) - 1) :
        /\ Lower(SubSeq(lab, i, i + Len(lab_name) - 1)) = Lower(lab_name)
        /\ SubSeq(lab, i + Len(lab_name), i + Len(lab_name)) = ":"
        /\ IsDigit(SubSeq(lab, i + Len(lab_name) + 1, i + Len(lab_name) + 1))}

\* float(match.group(1)) of the group \d+\.?\d* starting at position from
ParseNumber(lab, from) ==
    LET
        \* end of the maximal run of digits of s starting at position i (i - 1 when none)
        RECURSIVE DigitsEnd(_, _)
        DigitsEnd(s, i) ==
            IF i <= Len(s) /\ IsDigit(SubSeq(s, i, i)) THEN DigitsEnd(s, i + 1) ELSE i - 1
        \* value of a string of digits ("" is 0)
        RECURSIVE DigitsValue(_)
        DigitsValue(s) ==
            IF Len(s) = 0 THEN 0
            ELSE 10 * DigitsValue(SubSeq(s, 1, Len(s) - 1))
                 + (IndexOfChar(SubSeq(s, Len(s), Len(s)), Digits) - 1)
        Float(m, e) == [some |-> TRUE, num |-> m, scale |-> e]
    IN
    LET intEnd == DigitsEnd(lab, from)
        hasDot == intEnd + 1 <= Len(lab) /\ SubSeq(lab, intEnd + 1, intEnd + 1) = "."
        fracEnd == IF hasDot THEN DigitsEnd(lab, intEnd + 2) ELSE intEnd
        frac == IF hasDot THEN SubSeq(lab, intEnd + 2, fracEnd) ELSE ""
    IN  Float(DigitsValue(SubSeq(lab, from, intEnd) \o frac), Len(frac))

ExtractLabValue(lab, lab_name) ==
    LET starts == LabMatchStarts(lab, lab_name)
    IN  IF starts = {} THEN NoFloat
        ELSE LET first == CHOOSE i \in starts : \A j \in starts : i <= j
             IN  ParseNumber(lab, first + Len(lab_name) + 1)

\* hba1c_value > 7.0 and ">7.0" in sop_upper
LabApproves(v, su) == FloatGt(v, 7) /\ IsSubstr(">7.0", su)

\* hba1c_value < 6.0 and "<6.0" in sop_upper and "DENIED" in sop_upper
LabDenies(v, su) == FloatLt(v, 6) /\ IsSubstr("<6.0", su) /\ IsSubstr("DENIED", su)

\* 'i10' in diagnosis_code.lower() and 'hypertension' in sop_context.lower()
HypertensionMatches(dc, sop) ==
    IsSubstr("i10", Lower(dc)) /\ IsSubstr("hypertension", SopLower[sop])

\* previous_procedures and 'previous' in sop_context.lower()
PreviousSupports(prev, sop) ==
    LET
        \* truthiness of a value in `if v`
        Truthy(v) ==
            CASE v.kind = "str" -> v.s # ""
              [] v.kind = "int" -> v.n # 0
              [] OTHER -> FALSE
    IN
    Truthy(prev) /\ IsSubstr("previous", SopLower[sop])

-----------------------------------------------------------------------------
(* ReasoningAgent._extract_sop_reference *)

\* str.strip()
RECURSIVE Strip(_)
Strip(s) ==
    LET
        Whitespace == {" ", "\n", "\t", "\r"}
    IN
    IF Len(s) = 0 THEN ""
    ELSE IF SubSeq(s, 1, 1) \in Whitespace THEN Strip(SubSeq(s, 2, Len(s)))
    ELSE IF SubSeq(s, Len(s), Len(s)) \in Whitespace THEN Strip(SubSeq(s, 1, Len(s) - 1))
    ELSE s

SopReferenceOf(sop) ==
    LET
        \* the lines of s.split('\n'), each given by the position of its first character
        LineStarts(s) == {1} \cup {i + 1 : i \in {j \in 1..Len(s) : SubSeq(s, j, j) = "\n"}}
        LineAt(s, start) ==
            LET ends == {j \in start..Len(s) : SubSeq(s, j, j) = "\n"}
                stop == IF ends = {} THEN Len(s) + 1
                        ELSE CHOOSE j \in ends : \A k \in ends : j <= k
            IN  SubSeq(s, start, stop - 1)
    IN
    LET hits == {a \in LineStarts(sop) :
                    \/ IsSubstr("AUTHORIZATION", Upper(LineAt(sop, a)))
                    \/ IsSubstr("GUIDELINES", Upper(LineAt(sop, a)))}
    IN  IF hits = {} THEN "Medical SOP"
        ELSE Strip(LineAt(sop, CHOOSE a \in hits : \A b \in hits : a <= b))

\* the reference of each policy text, computed once
SopReference == [s \in SopTexts |-> SopReferenceOf(s)]

ExtractSopReference(sop) == SopReference[sop]

-----------------------------------------------------------------------------
(* ReasoningAgent.make_authorization_decision, local rule mode *)

\* one element of reasoning_points: the check that wrote it and its mark
Entry(check, sat) == [check |-> check, sat |-> sat]

NoResult == [outcome |-> "none", decision |-> "", points |-> <<>>, applied_sop |-> ""]
NoPatient == [k \in PatientKeys |-> Absent]

AgentInit ==
    /\ pc = "idle"
    /\ patient_data = NoPatient
    /\ sop_context = ""
    /\ diagnosis_code = ""
    /\ procedure_code = PyStr("")
    /\ age = PyInt(0)
    /\ lab_results = ""
    /\ previous_procedures = PyStr("")
    /\ sop_upper = ""
    /\ decision = ""
    /\ reasoning_points = <<>>
    /\ result = NoResult

\* an exception leaves the call: nothing is returned
Raise ==
    LET
        Raised == [outcome |-> "raised", decision |-> "", points |-> <<>>, applied_sop |-> ""]
    IN
    /\ pc' = "raised"
    /\ result' = Raised
    /\ UNCHANGED <<patient_data, sop_context, diagnosis_code, procedure_code, age,
                   lab_results, previous_procedures, sop_upper, decision,
                   reasoning_points>>

\* the caller hands over a patient dict and a policy text
MakeAuthorizationDecision(p, sop) ==
    /\ pc = "idle"
    /\ pc' = "extract"
    /\ patient_data' = p
    /\ sop_context' = sop
    /\ UNCHANGED <<diagnosis_code, procedure_code, age, lab_results,
                   previous_procedures, sop_upper, decision, reasoning_points, result>>

\* lines 44-56: .upper() and .lower() are called on whatever .get returned
ExtractFields ==
    /\ pc = "extract"
    /\ LET d == Get(patient_data, "diagnosis_code", PyStr(""))
           g == Get(patient_data, "gender", PyStr(""))
           l == Get(patient_data, "lab_results", PyStr(""))
       IN  IF d.kind # "str" \/ g.kind # "str" \/ l.kind # "str"
           THEN Raise
           ELSE /\ diagnosis_code' = Upper(d.s)
                /\ procedure_code' = Get(patient_data, "procedure_code", PyStr(""))
                /\ age' = Get(patient_data, "age", PyInt(0))
                /\ lab_results' = Lower(l.s)
                /\ previous_procedures' = Get(patient_data, "previous_procedures", PyStr(""))
                /\ decision' = "Denied"
                /\ reasoning_points' = <<>>
                /\ sop_upper' = SopUpper[sop_context]
                /\ pc' = "diagnosis"
                /\ UNCHANGED <<patient_data, sop_context, result>>

\* lines 58-63
CheckDiagnosis ==
    /\ pc = "diagnosis"
    /\ IF DiagnosisMatches(diagnosis_code, sop_upper)
       THEN /\ reasoning_points' = Append(reasoning_points, Entry("diagnosis", TRUE))
            /\ decision' = "Approved"
       ELSE /\ reasoning_points' = Append(reasoning_points, Entry("diagnosis", FALSE))
            /\ UNCHANGED decision
    /\ pc' = "procedure"
    /\ UNCHANGED <<patient_data, sop_context, diagnosis_code, procedure_code, age,
                   lab_results, previous_procedures, sop_upper, result>>

\* CheckProcedure with an uncovered procedure code taken as a denial
CheckProcedureDenies ==
    /\ pc = "procedure"
    /\ IF procedure_code.kind # "str"
       THEN Raise
       ELSE /\ IF ProcedureCovered(procedure_code.s, sop_upper)
               THEN /\ reasoning_points' = Append(reasoning_points, Entry("procedure", TRUE))
                    /\ decision' = "Approved"
               ELSE /\ reasoning_points' = Append(reasoning_points, Entry("procedure", FALSE))
                    /\ decision' = "Denied"
            /\ pc' = "age"
            /\ UNCHANGED <<patient_data, sop_context, diagnosis_code, procedure_code, age,
                           lab_results, previous_procedures, sop_upper, result>>

\* lines 65-71: `in` needs a str on its left
CheckProcedure ==
    /\ pc = "procedure"
    /\ IF procedure_code.kind # "str"
       THEN Raise
       ELSE /\ IF ProcedureCovered(procedure_code.s, sop_upper)
               THEN /\ reasoning_points' = Append(reasoning_points, Entry("procedure", TRUE))
                    /\ decision' = IF decision # "Approved" THEN "Approved" ELSE decision
               ELSE /\ reasoning_points' = Append(reasoning_points, Entry("procedure", FALSE))
                    /\ UNCHANGED decision
            /\ pc' = "age"
            /\ UNCHANGED <<patient_data, sop_context, diagnosis_code, procedure_code, age,
                           lab_results, previous_procedures, sop_upper, result>>

\* CheckAge that also writes an entry when neither age criterion applies
CheckAgeAlwaysAppends ==
    /\ pc = "age"
    /\ IF age.kind # "int"
       THEN Raise
       ELSE /\ IF AgeApproves(age.n, sop_upper)
               THEN /\ reasoning_points' = Append(reasoning_points, Entry("age", TRUE))
                    /\ decision' = "Approved"
               ELSE IF AgeDenies(age.n, sop_upper)
               THEN /\ reasoning_points' = Append(reasoning_points, Entry("age", FALSE))
                    /\ decision' = "Denied"
               ELSE /\ reasoning_points' = Append(reasoning_points, Entry("age", FALSE))
                    /\ UNCHANGED decision
            /\ pc' = "lab"
            /\ UNCHANGED <<patient_data, sop_context, diagnosis_code, procedure_code, age,
                           lab_results, previous_procedures, sop_upper, result>>

\* CheckAge whose approving branch writes its entry and leaves the decision
CheckAgeOnlyDenies ==
    /\ pc = "age"
    /\ IF age.kind # "int"
       THEN Raise
       ELSE /\ IF AgeApproves(age.n, sop_upper)
               THEN /\ reasoning_points' = Append(reasoning_points, Entry("age", TRUE))
                    /\ UNCHANGED decision
               ELSE IF AgeDenies(age.n, sop_upper)
               THEN /\ reasoning_points' = Append(reasoning_points, Entry("age", FALSE))
                    /\ decision' = "Denied"
               ELSE UNCHANGED <<reasoning_points, decision>>
            /\ pc' = "lab"
            /\ UNCHANGED <<patient_data, sop_context, diagnosis_code, procedure_code, age,
                           lab_results, previous_procedures, sop_upper, result>>

\* lines 73-79: `>` needs a number
CheckAge ==
    /\ pc = "age"
    /\ IF age.kind # "int"
       THEN Raise
       ELSE /\ IF AgeApproves(age.n, sop_upper)
               THEN /\ reasoning_points' = Append(reasoning_points, Entry("age", TRUE))
                    /\ decision' = "Approved"
               ELSE IF AgeDenies(age.n, sop_upper)
               THEN /\ reasoning_points' = Append(reasoning_points, Entry("age", FALSE))
                    /\ decision' = "Denied"
               ELSE UNCHANGED <<reasoning_points, decision>>
            /\ pc' = "lab"
            /\ UNCHANGED <<patient_data, sop_context, diagnosis_code, procedure_code, age,
                           lab_results, previous_procedures, sop_upper, result>>

\* CheckLab that takes a marker without a number for a denial
CheckLabDeniesUnparsable ==
    /\ pc = "lab"
    /\ LET hba1c_value == ExtractLabValue(lab_results, "hba1c")
       IN  IF IsSubstr("hba1c", lab_results) /\ FloatTruthy(hba1c_value)
           THEN IF LabApproves(hba1c_value, sop_upper)
                THEN /\ reasoning_points' = Append(reasoning_points, Entry("lab", TRUE))
                     /\ decision' = "Approved"
                ELSE IF LabDenies(hba1c_value, sop_upper)
                THEN /\ reasoning_points' = Append(reasoning_points, Entry("lab", FALSE))
                     /\ decision' = "Denied"
                ELSE UNCHANGED <<reasoning_points, decision>>
           ELSE IF IsSubstr("hba1c", lab_results)
           THEN /\ reasoning_points' = Append(reasoning_points, Entry("lab", FALSE))
                /\ decision' = "Denied"
           ELSE UNCHANGED <<reasoning_points, decision>>
    /\ pc' = "hypertension"
    /\ UNCHANGED <<patient_data, sop_context, diagnosis_code, procedure_code, age,
                   lab_results, previous_procedures, sop_upper, result>>

\* CheckLab whose approving branch does not lift an earlier denial
CheckLabKeepsDenial ==
    /\ pc = "lab"
    /\ LET hba1c_value == ExtractLabValue(lab_results, "hba1c")
       IN  IF IsSubstr("hba1c", lab_results) /\ FloatTruthy(hba1c_value)
           THEN IF LabApproves(hba1c_value, sop_upper)
                THEN /\ reasoning_points' = Append(reasoning_points, Entry("lab", TRUE))
                     /\ decision' = IF AgeDenies(age.n, sop_upper) THEN decision ELSE "Approved"
                ELSE IF LabDenies(hba1c_value, sop_upper)
                THEN /\ reasoning_points' = Append(reasoning_points, Entry("lab", FALSE))
                     /\ decision' = "Denied"
                ELSE UNCHANGED <<reasoning_points, decision>>
           ELSE UNCHANGED <<reasoning_points, decision>>
    /\ pc' = "hypertension"
    /\ UNCHANGED <<patient_data, sop_context, diagnosis_code, procedure_code, age,
                   lab_results, previous_procedures, sop_upper, result>>

\* lines 81-90
CheckLab ==
    /\ pc = "lab"
    /\ LET hba1c_value == ExtractLabValue(lab_results, "hba1c")
       IN  IF IsSubstr("hba1c", lab_results) /\ FloatTruthy(hba1c_value)
           THEN IF LabApproves(hba1c_value, sop_upper)
                THEN /\ reasoning_points' = Append(reasoning_points, Entry("lab", TRUE))
                     /\ decision' = "Approved"
                ELSE IF LabDenies(hba1c_value, sop_upper)
                THEN /\ reasoning_points' = Append(reasoning_points, Entry("lab", FALSE))
                     /\ decision' = "Denied"
                ELSE UNCHANGED <<reasoning_points, decision>>
           ELSE UNCHANGED <<reasoning_points, decision>>
    /\ pc' = "hypertension"
    /\ UNCHANGED <<patient_data, sop_context, diagnosis_code, procedure_code, age,
                   lab_results, previous_procedures, sop_upper, result>>

\* lines 92-95
CheckHypertension ==
    /\ pc = "hypertension"
    /\ IF HypertensionMatches(diagnosis_code, sop_context)
       THEN /\ reasoning_points' = Append(reasoning_points, Entry("hypertension", TRUE))
            /\ decision' = "Approved"
       ELSE UNCHANGED <<reasoning_points, decision>>
    /\ pc' = "previous"
    /\ UNCHANGED <<patient_data, sop_context, diagnosis_code, procedure_code, age,
                   lab_results, previous_procedures, sop_upper, result>>

\* CheckPrevious that leaves a denial of the age or lab check standing
CheckPreviousKeepsDenial ==
    /\ pc = "previous"
    /\ IF PreviousSupports(previous_procedures, sop_context)
       THEN /\ reasoning_points' = Append(reasoning_points, Entry("previous", TRUE))
            /\ decision' = IF \E i \in 1..Len(reasoning_points) :
                                  reasoning_points[i] \in {Entry("age", FALSE), Entry("lab", FALSE)}
                           THEN decision ELSE "Approved"
       ELSE UNCHANGED <<reasoning_points, decision>>
    /\ pc' = "compile"
    /\ UNCHANGED <<patient_data, sop_context, diagnosis_code, procedure_code, age,
                   lab_results, previous_procedures, sop_upper, result>>

\* lines 97-100
CheckPrevious ==
    /\ pc = "previous"
    /\ IF PreviousSupports(previous_procedures, sop_context)
       THEN /\ reasoning_points' = Append(reasoning_points, Entry("previous", TRUE))
            /\ decision' = "Approved"
       ELSE UNCHANGED <<reasoning_points, decision>>
    /\ pc' = "compile"
    /\ UNCHANGED <<patient_data, sop_context, diagnosis_code, procedure_code, age,
                   lab_results, previous_procedures, sop_upper, result>>

\* lines 102-116: the trail, the SOP reference and the returned dict
CompileResult ==
    /\ pc = "compile"
    /\ LET sop_reference == ExtractSopReference(sop_context)
       IN  result' = [outcome |-> "returned",
                      decision |-> decision,
                      points |-> reasoning_points,
                      applied_sop |-> sop_reference]
    /\ pc' = "done"
    /\ UNCHANGED <<patient_data, sop_context, diagnosis_code, procedure_code, age,
                   lab_results, previous_procedures, sop_upper, decision,
                   reasoning_points>>

\* the end of a call that leaves the decision behind in the agent
FinishCallKeepsDecision ==
    /\ pc \in {"done", "raised"}
    /\ pc' = "idle"
    /\ patient_data' = NoPatient
    /\ sop_context' = ""
    /\ diagnosis_code' = ""
    /\ procedure_code' = PyStr("")
    /\ age' = PyInt(0)
    /\ lab_results' = ""
    /\ previous_procedures' = PyStr("")
    /\ sop_upper' = ""
    /\ reasoning_points' = <<>>
    /\ result' = NoResult
    /\ UNCHANGED decision

\* the call is over (returned or raised); the agent keeps nothing of it
FinishCall ==
    /\ pc \in {"done", "raised"}
    /\ pc' = "idle"
    /\ patient_data' = NoPatient
    /\ sop_context' = ""
    /\ diagnosis_code' = ""
    /\ procedure_code' = PyStr("")
    /\ age' = PyInt(0)
    /\ lab_results' = ""
    /\ previous_procedures' = PyStr("")
    /\ sop_upper' = ""
    /\ decision' = ""
    /\ reasoning_points' = <<>>
    /\ result' = NoResult

-----------------------------------------------------------------------------
(* FAISSManager: the flat L2 index and its document map *)

\* most rows of an embeddings array, most names of a names list
MaxDocs == 2

\* the dimension the manager is constructed with
EmbeddingDim == 2

\* the embeddings documents and queries have
ZeroVec == [i \in 1..EmbeddingDim |-> 0]
UnitVec == [i \in 1..EmbeddingDim |-> IF i = 1 THEN 1 ELSE 0]
OnesVec == [i \in 1..EmbeddingDim |-> 1]
Embeddings == {ZeroVec, UnitVec, OnesVec}
\* a numpy array of shape (len(rows), dim)
Array(rows, dim) == [rows |-> rows, dim |-> dim]

\* the arrays build_index is handed: rows of the declared dimension, or of one less
EmbeddingArrays ==
    {Array(rows, EmbeddingDim) : rows \in UNION {[1..n -> Embeddings] : n \in 0..MaxDocs}}
    \cup {Array([i \in 1..n |-> [j \in 1..(EmbeddingDim - 1) |-> 1]], EmbeddingDim - 1) :
             n \in 0..MaxDocs}

\* document_names: None, or a list of names (the first n names, in either order)
NoNames == [given |-> FALSE, names |-> <<>>]
Names(l) == [given |-> TRUE, names |-> l]
NameLists ==
    LET
        DocNames == <<"diabetes.pdf", "cardiology.pdf", "oncology.pdf">>
    IN
    {NoNames}
    \cup {Names(SubSeq(DocNames, 1, n)) : n \in 0..MaxDocs}
    \cup {Names([i \in 1..n |-> DocNames[n + 1 - i]]) : n \in 1..MaxDocs}

Queries == Embeddings
Ks == 1..(MaxDocs + 1)

NoIndex == [built |-> FALSE, d |-> 0, vectors |-> <<>>]
\* faiss.IndexFlatL2(d) after add(vectors)
IndexFlatL2(d, vectors) == [built |-> TRUE, d |-> d, vectors |-> vectors]
ntotal(index) == Len(index.vectors)

NoFile == [exists |-> FALSE]
EmptyMap == [i \in {} |-> [name |-> "", index |-> 0]]

\* squared Euclidean distance
RECURSIVE SumSquares(_, _, _)
SumSquares(x, y, i) ==
    IF i = 0 THEN 0 ELSE (x[i] - y[i]) * (x[i] - y[i]) + SumSquares(x, y, i - 1)
L2(x, y) == SumSquares(x, y, Len(x))

\* the outcome of a call
Ok(op, args, value) == [op |-> op, outcome |-> "ok", error |-> "", args |-> args, value |-> value]
Error(op, args, error) == [op |-> op, outcome |-> "raised", error |-> error, args |-> args, value |-> <<>>]
NoCall == [op |-> "none", outcome |-> "ok", error |-> "", args |-> <<>>, value |-> <<>>]

IndexInit ==
    /\ fm_index = NoIndex
    /\ document_map = EmptyMap
    /\ embedding_dim = EmbeddingDim
    /\ index_file = NoFile
    /\ metadata_file = NoFile
    /\ last = NoCall

\* document_map after the loop of lines 44-49 over the names l
MapWith(map, l) ==
    [i \in DOMAIN map \cup {j - 1 : j \in 1..Len(l)} |->
        IF i + 1 \in 1..Len(l) THEN [name |-> l[i + 1], index |-> i] ELSE map[i]]

\* build_index with the index replaced before the dimensions are compared
BuildIndexChecksLate(embeddings, document_names) ==
    LET args == [dim |-> embeddings.dim, rows |-> Len(embeddings.rows), names |-> document_names] IN
    IF embeddings.dim # embedding_dim
    THEN /\ fm_index' = IndexFlatL2(embedding_dim, <<>>)
         /\ last' = Error("build_index", args, "IndexError")
         /\ UNCHANGED <<document_map, embedding_dim, index_file, metadata_file>>
    ELSE /\ fm_index' = IndexFlatL2(embedding_dim, embeddings.rows)
         /\ document_map' = IF document_names.given /\ document_names.names # <<>>
                            THEN MapWith(document_map, document_names.names)
                            ELSE document_map
         /\ last' = Ok("build_index", args, <<>>)
         /\ UNCHANGED <<embedding_dim, index_file, metadata_file>>

\* lines 24-53; the message of the ValueError of line 32 reads shape[11],
\* so what is raised on a dimension mismatch is an IndexError
BuildIndex(embeddings, document_names) ==
    LET args == [dim |-> embeddings.dim, rows |-> Len(embeddings.rows), names |-> document_names] IN
    IF embeddings.dim # embedding_dim
    THEN /\ last' = Error("build_index", args, "IndexError")
         /\ UNCHANGED <<fm_index, document_map, embedding_dim, index_file, metadata_file>>
    ELSE /\ fm_index' = IndexFlatL2(embedding_dim, embeddings.rows)
         /\ document_map' = IF document_names.given /\ document_names.names # <<>>
                            THEN MapWith(document_map, document_names.names)
                            ELSE document_map
         /\ last' = Ok("build_index", args, <<>>)
         /\ UNCHANGED <<embedding_dim, index_file, metadata_file>>

\* an ordering of the offsets by descending distance
BeforeFarthestFirst(index, query, a, b) ==
    \/ L2(query, index.vectors[a + 1]) > L2(query, index.vectors[b + 1])
    \/ L2(query, index.vectors[a + 1]) = L2(query, index.vectors[b + 1]) /\ a < b

\* faiss IndexFlatL2.search(query, k): the k nearest offsets by ascending
\* distance, the lower offset first among equal distances, then label -1 at
\* distance FLT_MAX for every neighbour the index does not have
Before(index, query, a, b) ==
    \/ L2(query, index.vectors[a + 1]) < L2(query, index.vectors[b + 1])
    \/ L2(query, index.vectors[a + 1]) = L2(query, index.vectors[b + 1]) /\ a < b

Min(a, b) == IF a < b THEN a ELSE b

Nearest(index, query, k) ==
    LET offsets == 0..(ntotal(index) - 1) IN
    [i \in 1..Min(k, ntotal(index)) |->
        CHOOSE o \in offsets :
            Cardinality({a \in offsets : Before(index, query, a, o)}) = i - 1]

Labels(index, found, k) ==
    [i \in 1..k |-> IF i <= Len(found) THEN found[i] ELSE -1]

Distances(index, query, found, k) ==
    LET
        \* the distance faiss reports beside the label -1 of a missing neighbour:
        \* larger than the distance of any two vectors
        FLT_MAX == 1 + EmbeddingDim
    IN
    [i \in 1..k |-> IF i <= Len(found) THEN L2(query, index.vectors[found[i] + 1])
                    ELSE FLT_MAX]

\* lines 71-77
DocNamesOf(map, indices) ==
    [i \in 1..Len(indices) |->
        IF indices[i] \in DOMAIN map THEN map[indices[i]].name
        ELSE "Document_" \o ToString(indices[i])]

\* search that stores the names it made up for offsets the map lacks
SearchRemembersNames(query, k) ==
    LET args == [query |-> query, k |-> k] IN
    IF ~fm_index.built
    THEN /\ last' = Error("search", args, "ValueError")
         /\ UNCHANGED <<fm_index, document_map, embedding_dim, index_file, metadata_file>>
    ELSE LET found == Nearest(fm_index, query, k)
             indices == Labels(fm_index, found, k)
             distances == Distances(fm_index, query, found, k)
             doc_names == DocNamesOf(document_map, indices)
         IN  /\ last' = Ok("search", args,
                           [distances |-> distances, indices |-> indices,
                            doc_names |-> doc_names])
             /\ document_map' =
                    [i \in DOMAIN document_map \cup {indices[j] : j \in 1..k} |->
                        IF i \in DOMAIN document_map THEN document_map[i]
                        ELSE [name |-> "Document_" \o ToString(i), index |-> i]]
             /\ UNCHANGED <<fm_index, embedding_dim, index_file, metadata_file>>

\* lines 55-79
Search(query, k) ==
    LET args == [query |-> query, k |-> k] IN
    /\ IF ~fm_index.built
       THEN last' = Error("search", args, "ValueError")
       ELSE LET found == Nearest(fm_index, query, k)
                indices == Labels(fm_index, found, k)
                distances == Distances(fm_index, query, found, k)
            IN  last' = Ok("search", args,
                           [distances |-> distances, indices |-> indices,
                            doc_names |-> DocNamesOf(document_map, indices)])
    /\ UNCHANGED <<fm_index, document_map, embedding_dim, index_file, metadata_file>>

\* lines 81-105
SaveIndex ==
    IF ~fm_index.built
    THEN /\ last' = Error("save_index", <<>>, "ValueError")
         /\ UNCHANGED <<fm_index, document_map, embedding_dim, index_file, metadata_file>>
    ELSE /\ index_file' = [exists |-> TRUE, index |-> fm_index]
         /\ metadata_file' = [exists |-> TRUE,
                              document_map |-> document_map,
                              embedding_dim |-> embedding_dim,
                              num_documents |-> ntotal(fm_index)]
         /\ last' = Ok("save_index", <<>>, <<>>)
         /\ UNCHANGED <<fm_index, document_map, embedding_dim>>

\* load_index that reads the index file only
LoadIndexKeepsMap ==
    IF ~index_file.exists
    THEN /\ last' = Error("load_index", <<>>, "FileNotFoundError")
         /\ UNCHANGED <<fm_index, document_map, embedding_dim, index_file, metadata_file>>
    ELSE /\ fm_index' = index_file.index
         /\ last' = Ok("load_index", <<>>, <<>>)
         /\ UNCHANGED <<document_map, embedding_dim, index_file, metadata_file>>

\* lines 107-129
LoadIndex ==
    IF ~index_file.exists
    THEN /\ last' = Error("load_index", <<>>, "FileNotFoundError")
         /\ UNCHANGED <<fm_index, document_map, embedding_dim, index_file, metadata_file>>
    ELSE /\ fm_index' = index_file.index
         /\ IF metadata_file.exists
            THEN /\ document_map' = metadata_file.document_map
                 /\ embedding_dim' = metadata_file.embedding_dim
            ELSE UNCHANGED <<document_map, embedding_dim>>
         /\ last' = Ok("load_index", <<>>, <<>>)
         /\ UNCHANGED <<index_file, metadata_file>>

-----------------------------------------------------------------------------
(* EndToEndPriorAuth: startup, process_prior_authorization, batch_process *)

\* most patient ids of one batch_process call
MaxBatch == 2

\* the table: two of the seeded patients, and one whose nullable columns are NULL
PatientTable ==
    LET
        \* a row of the patients table as get_patient returns it
        Row(id, name, a, g, dc, pcode, lab, prev) ==
            [patient_id |-> id, name |-> name, age |-> PyInt(a), gender |-> PyStr(g),
             diagnosis_code |-> PyStr(dc), procedure_code |-> PyStr(pcode),
             lab_results |-> lab, previous_procedures |-> prev]
    IN
    1 :> Row(1, "Alice Johnson", 45, "Female", "E11.9", "99214",
             PyStr("HbA1c:6.5;Cholesterol:190;BUN:15"), PyStr("99213;81001"))
    @@ 3 :> Row(3, "Carol Lee", 30, "Female", "Z00.00", "99395",
                PyStr("HbA1c:5.4;Cholesterol:180;CBC:Normal"), PyStr(""))
    @@ 4 :> Row(4, "Dan Young", 60, "Male", "I10", "93306", None, None)

\* the ids requests come with: those of the table and one that is in no row
PatientIds == DOMAIN PatientTable \cup {5}

\* core/patient_service.py
get_patient(id) == IF id \in DOMAIN PatientTable THEN PatientTable[id] ELSE None

\* what extract_all_sop_texts may find: file name -> text
NoTexts == [n \in {} |-> ""]
TextStores ==
    {NoTexts,
     [n \in {"diabetes.pdf"} |-> test_sop],
     [n \in {"diabetes.pdf", "cardiology.pdf"} |->
         IF n = "diabetes.pdf" THEN test_sop ELSE cardiology_sop]}

DiskStates ==
    LET
        \* what the index file and the metadata file may hold when the service starts
        File(index) == [exists |-> TRUE, index |-> index]
        Metadata(map, n) ==
            [exists |-> TRUE, document_map |-> map, embedding_dim |-> EmbeddingDim,
             num_documents |-> n]
    IN
    {[index |-> NoFile, metadata |-> NoFile],
     [index |-> File(IndexFlatL2(EmbeddingDim, <<>>)), metadata |-> Metadata(EmptyMap, 0)],
     [index |-> File(IndexFlatL2(EmbeddingDim, <<UnitVec>>)), metadata |-> NoFile],
     [index |-> File(IndexFlatL2(EmbeddingDim, <<UnitVec, OnesVec>>)),
      metadata |-> Metadata(MapWith(EmptyMap, <<"diabetes.pdf", "cardiology.pdf">>), 2)]}

\* api/routes.py: the global pa_system, None or the pipeline object; the
\* object has the attribute faiss_manager only if the embeddings file was there
NoSystem == [exists |-> FALSE, faiss_manager |-> FALSE]
System(hasManager) == [exists |-> TRUE, faiss_manager |-> hasManager]

NoReturn == [kind |-> "pending"]
NoDecisionResult == [outcome |-> "none", decision |-> "", points |-> <<>>, applied_sop |-> ""]
NoResults ==
    [processed |-> <<>>, failed |-> <<>>,
     summary |-> [approved |-> 0, denied |-> 0, failed |-> 0]]

PipeInit ==
    /\ sop_texts = NoTexts
    /\ pa_system = NoSystem
    /\ e2e_pc = "down"
    /\ caller = "none"
    /\ patient_id = 0
    /\ log_decision = FALSE
    /\ best_sop = ""
    /\ sop_text = ""
    /\ decision_result = NoDecisionResult
    /\ sink = "none"
    /\ e2e_result = NoReturn
    /\ patient_ids = <<>>
    /\ batch_i = 0
    /\ results = NoResults
    /\ batch_pc = "idle"

\* a manager not yet built, beside whatever the three files hold
DiskInit ==
    /\ fm_index = NoIndex
    /\ document_map = EmptyMap
    /\ embedding_dim = EmbeddingDim
    /\ embeddings_file \in {"missing", "corrupt", "ok"}
    /\ \E disk \in DiskStates :
          /\ index_file = disk.index
          /\ metadata_file = disk.metadata
    /\ last = NoCall

\* startup that gives the pipeline up when a file it needs is missing
StartupAbortsOnMissingFiles(texts) ==
    /\ e2e_pc = "down"
    /\ e2e_pc' = "idle"
    /\ IF embeddings_file # "ok" \/ ~index_file.exists
       THEN /\ pa_system' = NoSystem
            /\ UNCHANGED <<sop_texts, indexVars>>
       ELSE /\ pa_system' = System(TRUE)
            /\ sop_texts' = texts
            /\ LoadIndex
    /\ UNCHANGED <<embeddings_file, reqVars, batchVars, agentVars>>

\* routes.py startup_event around EndToEndPriorAuth.__init__ (lines 24-54):
\* np.load of an unreadable embeddings file raises and the handler swallows
\* it; a missing embeddings file or index file is printed and passed over
Startup(texts) ==
    /\ e2e_pc = "down"
    /\ e2e_pc' = "idle"
    /\ IF embeddings_file = "corrupt"
       THEN /\ pa_system' = NoSystem
            /\ UNCHANGED <<sop_texts, indexVars>>
       ELSE IF embeddings_file = "missing"
       THEN /\ pa_system' = System(FALSE)
            /\ sop_texts' = texts
            /\ UNCHANGED indexVars
       ELSE /\ pa_system' = System(TRUE)
            /\ sop_texts' = texts
            /\ IF index_file.exists THEN LoadIndex ELSE UNCHANGED indexVars
    /\ UNCHANGED <<embeddings_file, reqVars, batchVars, agentVars>>

\* routes.py health_check
health_check == [status |-> "healthy", pa_system_ready |-> pa_system.exists]

\* lines 75-77, 91-93, 146-150: the call is over without a result
ReturnNone ==
    /\ e2e_pc' = "returned"
    /\ e2e_result' = None
    /\ UNCHANGED <<best_sop, sop_text, decision_result, sink, agentVars>>

\* lines 101-104
SopTextOf(name) ==
    LET text == IF name \in DOMAIN sop_texts THEN sop_texts[name] ELSE ""
    IN  IF text = "" THEN NoSopContent ELSE text

\* ProcessStart with a value of its own for an id of no row
ProcessStartReportsNotFound(id, log, who) ==
    LET patient == get_patient(id) IN
    /\ patient_id' = id
    /\ log_decision' = log
    /\ caller' = who
    /\ IF patient = None
       THEN /\ e2e_pc' = "returned"
            /\ e2e_result' = [kind |-> "not_found"]
            /\ UNCHANGED <<best_sop, sop_text, decision_result, sink, agentVars, indexVars>>
       ELSE IF ~pa_system.faiss_manager
       THEN ReturnNone /\ UNCHANGED indexVars
       ELSE \E query_embedding \in Queries :
               /\ Search(query_embedding, 1)
               /\ IF last'.outcome = "raised"
                  THEN ReturnNone
                  ELSE IF last'.value.doc_names = <<>>
                  THEN ReturnNone
                  ELSE /\ best_sop' = last'.value.doc_names[1]
                       /\ sop_text' = SopTextOf(best_sop')
                       /\ MakeAuthorizationDecision(patient, sop_text')
                       /\ e2e_pc' = "engine"
                       /\ UNCHANGED <<decision_result, sink, e2e_result>>
    /\ UNCHANGED <<embeddings_file, sop_texts, pa_system, batchVars>>

\* lines 70-110: from the patient fetch to the call of the reasoning agent;
\* the embedding of the query context is whatever the embedding model gives
ProcessStart(id, log, who) ==
    LET patient == get_patient(id) IN
    /\ patient_id' = id
    /\ log_decision' = log
    /\ caller' = who
    /\ IF patient = None
       THEN ReturnNone /\ UNCHANGED indexVars
       ELSE IF ~pa_system.faiss_manager
       THEN ReturnNone /\ UNCHANGED indexVars
       ELSE \E query_embedding \in Queries :
               /\ Search(query_embedding, 1)
               /\ IF last'.outcome = "raised"
                  THEN ReturnNone
                  ELSE IF last'.value.doc_names = <<>>
                  THEN ReturnNone
                  ELSE /\ best_sop' = last'.value.doc_names[1]
                       /\ sop_text' = SopTextOf(best_sop')
                       /\ MakeAuthorizationDecision(patient, sop_text')
                       /\ e2e_pc' = "engine"
                       /\ UNCHANGED <<decision_result, sink, e2e_result>>
    /\ UNCHANGED <<embeddings_file, sop_texts, pa_system, batchVars>>

\* lines 152-173
build_query_context(patient) ==
    LET
        \* str.replace of one character by another
        RECURSIVE ReplaceChar(_, _, _)
        ReplaceChar(s, c, d) ==
            IF s = "" THEN ""
            ELSE (IF SubSeq(s, 1, 1) = c THEN d ELSE SubSeq(s, 1, 1))
                 \o ReplaceChar(SubSeq(s, 2, Len(s)), c, d)
    IN
    "diagnosis " \o patient.diagnosis_code.s
    \o " procedure " \o patient.procedure_code.s
    \o " age " \o ToString(patient.age.n) \o " years"
    \o " " \o Lower(patient.gender.s)
    \o (IF patient.lab_results.kind = "str" /\ patient.lab_results.s # ""
        THEN " labs " \o ReplaceChar(ReplaceChar(patient.lab_results.s, ";", " "), ":", " ")
        ELSE "")
    \o (IF patient.previous_procedures.kind = "str" /\ patient.previous_procedures.s # ""
        THEN " previous procedures " \o patient.previous_procedures.s
        ELSE "")

\* the result compiled from the placeholder of _llm_reasoning
complete_result_of_placeholder(log_id) ==
    [kind |-> "dict",
     patient_id |-> patient_id,
     retrieved_sop |-> best_sop,
     sop_similarity_score |-> last.value.distances[1],
     query_context |-> build_query_context(get_patient(patient_id)),
     decision |-> "Pending",
     reasoning |-> <<>>,
     processing_status |-> "completed",
     log_id |-> log_id]

\* lines 116-132, with log_id when the decision was logged
complete_result(log_id) ==
    [kind |-> "dict",
     patient_id |-> patient_id,
     retrieved_sop |-> best_sop,
     sop_similarity_score |-> last.value.distances[1],
     query_context |-> build_query_context(get_patient(patient_id)),
     decision |-> result.decision,
     reasoning |-> result.points,
     processing_status |-> "completed",
     log_id |-> log_id]

\* lines 110-150: the agent has returned or raised; the result is compiled,
\* logged when asked (log_decision writes files and may raise), and returned;
\* every exception ends in the handler of line 146
ProcessFinish ==
    /\ e2e_pc = "engine"
    /\ pc \in {"done", "raised"}
    /\ decision_result' = result
    /\ IF pc = "raised"
       THEN /\ sink' = "none"
            /\ e2e_result' = None
       ELSE IF log_decision
       THEN \E s \in {"ok", "raised"} :
               /\ sink' = s
               /\ e2e_result' = IF s = "ok" THEN complete_result(PyStr("log_id")) ELSE None
       ELSE /\ sink' = "none"
            /\ e2e_result' = complete_result(Absent)
    /\ e2e_pc' = "returned"
    /\ FinishCall
    /\ UNCHANGED <<embeddings_file, sop_texts, pa_system, caller, patient_id,
                   log_decision, best_sop, sop_text, batchVars, indexVars>>

\* nothing of a call outlives it
ClearRequest ==
    /\ caller' = "none"
    /\ patient_id' = 0
    /\ log_decision' = FALSE
    /\ best_sop' = ""
    /\ sop_text' = ""
    /\ decision_result' = NoDecisionResult
    /\ sink' = "none"
    /\ e2e_result' = NoReturn

\* a caller of process_prior_authorization other than batch_process
ProcessPriorAuthorization(id, log) ==
    /\ e2e_pc = "idle"
    /\ batch_pc = "idle"
    /\ pa_system.exists
    /\ ProcessStart(id, log, "direct")

\* that caller has the value
Return ==
    /\ e2e_pc = "returned"
    /\ caller = "direct"
    /\ e2e_pc' = "idle"
    /\ ClearRequest
    /\ UNCHANGED <<embeddings_file, sop_texts, pa_system, batchVars, agentVars, indexVars>>

\* the lists of ids a batch is asked for
RECURSIVE IdLists(_)
IdLists(n) ==
    IF n = 0 THEN {<<>>}
    ELSE IdLists(n - 1) \cup {Append(l, id) : l \in {m \in IdLists(n - 1) : Len(m) = n - 1},
                                              id \in PatientIds}

\* lines 175-184
BatchProcess(ids) ==
    /\ e2e_pc = "idle"
    /\ batch_pc = "idle"
    /\ pa_system.exists
    /\ patient_ids' = ids
    /\ batch_i' = 1
    /\ results' = NoResults
    /\ batch_pc' = "loop"
    /\ UNCHANGED <<embeddings_file, sop_texts, pa_system, e2e_pc, reqVars, agentVars, indexVars>>

\* lines 186-187: the next id of the list goes to process_prior_authorization
BatchCall ==
    /\ batch_pc = "loop"
    /\ e2e_pc = "idle"
    /\ batch_i <= Len(patient_ids)
    /\ ProcessStart(patient_ids[batch_i], TRUE, "batch")

\* lines 189-197 with the loop left at the first patient that fails
BatchCollectStopsAtFailure ==
    /\ batch_pc = "loop"
    /\ e2e_pc = "returned"
    /\ caller = "batch"
    /\ IF e2e_result.kind = "dict"
       THEN /\ results' =
                 [processed |-> Append(results.processed, e2e_result),
                  failed |-> results.failed,
                  summary |->
                      IF e2e_result.decision = "Approved"
                      THEN [results.summary EXCEPT !.approved = @ + 1]
                      ELSE [results.summary EXCEPT !.denied = @ + 1]]
            /\ batch_i' = batch_i + 1
       ELSE /\ results' =
                 [processed |-> results.processed,
                  failed |-> Append(results.failed, patient_id),
                  summary |-> [results.summary EXCEPT !.failed = @ + 1]]
            /\ batch_i' = Len(patient_ids) + 1
    /\ e2e_pc' = "idle"
    /\ ClearRequest
    /\ UNCHANGED <<embeddings_file, sop_texts, pa_system, patient_ids, batch_pc,
                   agentVars, indexVars>>

\* lines 189-197: the result, truthy or None, is filed and counted
BatchCollect ==
    /\ batch_pc = "loop"
    /\ e2e_pc = "returned"
    /\ caller = "batch"
    /\ results' =
          IF e2e_result.kind = "dict"
          THEN [processed |-> Append(results.processed, e2e_result),
                failed |-> results.failed,
                summary |->
                    IF e2e_result.decision = "Approved"
                    THEN [results.summary EXCEPT !.approved = @ + 1]
                    ELSE [results.summary EXCEPT !.denied = @ + 1]]
          ELSE [processed |-> results.processed,
                failed |-> Append(results.failed, patient_id),
                summary |-> [results.summary EXCEPT !.failed = @ + 1]]
    /\ batch_i' = batch_i + 1
    /\ e2e_pc' = "idle"
    /\ ClearRequest
    /\ UNCHANGED <<embeddings_file, sop_texts, pa_system, patient_ids, batch_pc,
                   agentVars, indexVars>>

\* lines 199-205: the list is exhausted, results is returned
BatchReturn ==
    /\ batch_pc = "loop"
    /\ e2e_pc = "idle"
    /\ batch_i > Len(patient_ids)
    /\ batch_pc' = "done"
    /\ UNCHANGED <<embeddings_file, sop_texts, pa_system, e2e_pc, reqVars,
                   patient_ids, batch_i, results, agentVars, indexVars>>

\* the caller of batch_process has the results
BatchDone ==
    /\ batch_pc = "done"
    /\ batch_pc' = "idle"
    /\ patient_ids' = <<>>
    /\ batch_i' = 0
    /\ results' = NoResults
    /\ UNCHANGED <<embeddings_file, sop_texts, pa_system, e2e_pc, reqVars,
                   agentVars, indexVars>>

-----------------------------------------------------------------------------
(* PriorAuthLogger: log_decision, query_logs, get_decision_stats *)

\* most log_decision calls of one behaviour
MaxLogs == 3

\* the default `limit` of query_logs, 100 in the code, scaled to the length
\* of the logs explored
QueryLimit == 2

\* the callers that may be inside log_decision at once
Procs == {1, 2}

NoStats == [Approved |-> 0, Denied |-> 0, total |-> 0]
NoRecord ==
    [patient_id |-> 0, decision |-> "", timestamp |-> Absent, logged_at |-> Absent,
     system_version |-> Absent, log_id |-> Absent]
NoAnswer == [op |-> "none"]

\* datetime.isoformat() of the clock value t
Iso(t) == "2026-11-02T05:44:0" \o ToString(t)

\* the records callers log: the pipeline's carry a timestamp of their own
\* (end_to_end_flow.py:128), the test's carries none; every one has a patient
\* id and a decision, all values are ints and strs, which json.dump and
\* json.load give back unchanged
DecisionRecords ==
    {[patient_id |-> p, decision |-> d, timestamp |-> ts, logged_at |-> Absent,
      system_version |-> Absent, log_id |-> Absent] :
        p \in {1, 2}, d \in {"Approved", "Denied"}, ts \in {Absent, PyStr(Iso(0))}}

LogInit ==
    LET
        NoLogFile == [exists |-> FALSE, logs |-> <<>>]
        NoStatsFile == [exists |-> FALSE, stats |-> NoStats]
    IN
    /\ log_file = NoLogFile
    /\ stats_file = NoStatsFile
    /\ now = 0
    /\ lg_pc = [p \in Procs |-> "idle"]
    /\ lg_record = [p \in Procs |-> NoRecord]
    /\ lg_logs = [p \in Procs |-> <<>>]
    /\ lg_stats = [p \in Procs |-> NoStats]
    /\ lg_ret = [p \in Procs |-> Absent]
    /\ lg_answer = NoAnswer

\* the rank of each of these characters among them
CodePoint ==
    LET
        \* the characters of a timestamp in code-point order
        CodeOrder == " -.0123456789:T"
    IN
             [c \in {SubSeq(CodeOrder, i, i) : i \in 1..Len(CodeOrder)} |->
                 IndexOfChar(c, CodeOrder)]

\* Python a < b for strs that are equal before position i
RECURSIVE StrLessFrom(_, _, _)
StrLessFrom(a, b, i) ==
    IF i > Len(b) THEN FALSE
    ELSE IF i > Len(a) THEN TRUE
    ELSE LET x == CodePoint[SubSeq(a, i, i)]
             y == CodePoint[SubSeq(b, i, i)]
         IN  IF x # y THEN x < y ELSE StrLessFrom(a, b, i + 1)

\* Python a < b for strs
StrLess(a, b) == a # b /\ StrLessFrom(a, b, 1)

\* line 87: the sort key x.get('timestamp', '')
SortKey(x) == IF x.timestamp.kind = "str" THEN x.timestamp.s ELSE ""

\* x put behind the records of an older or equal key
InsertOldestFirst(sorted, x) ==
    LET older == {i \in 1..Len(sorted) : StrLess(SortKey(x), SortKey(sorted[i]))}
        at == IF older = {} THEN Len(sorted) + 1
              ELSE CHOOSE i \in older : \A j \in older : i <= j
    IN  SubSeq(sorted, 1, at - 1) \o <<x>> \o SubSeq(sorted, at, Len(sorted))

\* line 87, list.sort(reverse=True): descending keys, records of equal key in
\* the order they had; x goes before the first record of a smaller key
InsertNewestFirst(sorted, x) ==
    LET older == {i \in 1..Len(sorted) : StrLess(SortKey(sorted[i]), SortKey(x))}
        at == IF older = {} THEN Len(sorted) + 1
              ELSE CHOOSE i \in older : \A j \in older : i <= j
    IN  SubSeq(sorted, 1, at - 1) \o <<x>> \o SubSeq(sorted, at, Len(sorted))

RECURSIVE SortNewestFirst(_)
SortNewestFirst(l) ==
    IF l = <<>> THEN <<>>
    ELSE InsertNewestFirst(SortNewestFirst(SubSeq(l, 1, Len(l) - 1)), l[Len(l)])

\* lines 80-84: a list comprehension
RECURSIVE Filter(_, _, _)
Filter(l, patient, dec) ==
    IF l = <<>> THEN <<>>
    ELSE LET x == l[1]
             keep == /\ (patient.kind = "none" \/ x.patient_id = patient.n)
                     /\ (dec = "" \/ x.decision = dec)
         IN  (IF keep THEN <<x>> ELSE <<>>) \o Filter(Tail(l), patient, dec)

\* lines 64-93
query_logs(patient, dec, limit) ==
    IF ~log_file.exists THEN <<>>
    ELSE LET filtered_logs == SortNewestFirst(Filter(log_file.logs, patient, dec))
         IN  SubSeq(filtered_logs, 1, Min(limit, Len(filtered_logs)))

\* the number of records of l with the decision d
RECURSIVE CountDecision(_, _)
CountDecision(l, d) ==
    IF l = <<>> THEN 0
    ELSE (IF l[1].decision = d THEN 1 ELSE 0) + CountDecision(Tail(l), d)

\* lines 99-116: the statistics file if it is there, else counted from what
\* query_logs() returns
get_decision_stats ==
    IF stats_file.exists THEN stats_file.stats
    ELSE LET logs == query_logs(None, "", QueryLimit)
         IN  [Approved |-> CountDecision(logs, "Approved"),
              Denied |-> CountDecision(logs, "Denied"),
              total |-> Len(logs)]

\* lines 34-51: the record is stamped, the log file read, the record appended
\* to the local list
LogStart(p, record) ==
    /\ lg_pc[p] = "idle"
    /\ now < MaxLogs
    /\ now' = now + 1
    /\ LET stamped == [record EXCEPT
                         !.timestamp = IF @ = Absent THEN PyStr(Iso(now')) ELSE @,
                         !.logged_at = PyStr(Iso(now')),
                         !.system_version = PyStr("1.0.0"),
                         !.log_id = PyStr("log_" \o ToString(now'))]
           logs == IF log_file.exists THEN log_file.logs ELSE <<>>
       IN  /\ lg_record' = [lg_record EXCEPT ![p] = stamped]
           /\ lg_logs' = [lg_logs EXCEPT ![p] = Append(logs, stamped)]
    /\ lg_pc' = [lg_pc EXCEPT ![p] = "loaded"]
    /\ lg_answer' = NoAnswer
    /\ UNCHANGED <<log_file, stats_file, lg_stats, lg_ret>>

\* lines 54-55: the local list replaces the log file
LogWrite(p) ==
    /\ lg_pc[p] = "loaded"
    /\ log_file' = [exists |-> TRUE, logs |-> lg_logs[p]]
    /\ lg_pc' = [lg_pc EXCEPT ![p] = "written"]
    /\ UNCHANGED <<stats_file, now, lg_record, lg_logs, lg_stats, lg_ret, lg_answer>>

\* lines 58, 120: _update_stats reads the statistics
StatsRead(p) ==
    /\ lg_pc[p] = "written"
    /\ lg_stats' = [lg_stats EXCEPT ![p] = get_decision_stats]
    /\ lg_pc' = [lg_pc EXCEPT ![p] = "counting"]
    /\ UNCHANGED <<log_file, stats_file, now, lg_record, lg_logs, lg_ret, lg_answer>>

\* lines 121-125, 62: the counters are raised and written, the id returned
StatsWrite(p) ==
    LET
        \* lines 121-122
        Counted(stats, d) ==
            [stats EXCEPT ![d] = @ + 1, !.total = @ + 1]
    IN
    /\ lg_pc[p] = "counting"
    /\ stats_file' = [exists |-> TRUE, stats |-> Counted(lg_stats[p], lg_record[p].decision)]
    /\ lg_ret' = [lg_ret EXCEPT ![p] = lg_record[p].log_id]
    /\ lg_pc' = [lg_pc EXCEPT ![p] = "done"]
    /\ UNCHANGED <<log_file, now, lg_record, lg_logs, lg_stats, lg_answer>>

\* the caller has the id; nothing of the call is left
LogReturn(p) ==
    /\ lg_pc[p] = "done"
    /\ lg_pc' = [lg_pc EXCEPT ![p] = "idle"]
    /\ lg_record' = [lg_record EXCEPT ![p] = NoRecord]
    /\ lg_logs' = [lg_logs EXCEPT ![p] = <<>>]
    /\ lg_stats' = [lg_stats EXCEPT ![p] = NoStats]
    /\ lg_ret' = [lg_ret EXCEPT ![p] = Absent]
    /\ UNCHANGED <<log_file, stats_file, now, lg_answer>>

\* a call of query_logs with the default limit, between two log_decision calls
QueryLogs(patient, dec) ==
    /\ \A p \in Procs : lg_pc[p] = "idle"
    /\ lg_answer' = [op |-> "query_logs", patient |-> patient, decision |-> dec,
                     value |-> query_logs(patient, dec, QueryLimit)]
    /\ UNCHANGED <<log_file, stats_file, now, lg_pc, lg_record, lg_logs, lg_stats, lg_ret>>

\* a call of get_decision_stats, between two log_decision calls
GetDecisionStats ==
    /\ \A p \in Procs : lg_pc[p] = "idle"
    /\ lg_answer' = [op |-> "get_decision_stats", value |-> get_decision_stats]
    /\ UNCHANGED <<log_file, stats_file, now, lg_pc, lg_record, lg_logs, lg_stats, lg_ret>>

-----------------------------------------------------------------------------
(* api/routes.py: POST /prior-authorization/{patient_id} *)

HttpInit ==
    /\ http_patient = 0
    /\ http_status = 0

\* lines 98-110: 503 without a pipeline object, else the pipeline is called
\* with log_decision=True
AuthorizeProcedure(id) ==
    /\ e2e_pc = "idle"
    /\ batch_pc = "idle"
    /\ http_patient' = id
    /\ IF ~pa_system.exists
       THEN /\ http_status' = 503
            /\ UNCHANGED <<agentVars, indexVars, pipeVars>>
       ELSE /\ http_status' = 0
            /\ ProcessStart(id, TRUE, "endpoint")

\* lines 112-138: the pipeline has returned; `except Exception` catches
\* whatever the try block raised, the HTTPException of line 113 included, and
\* raises HTTPException(500) in its place
Respond ==
    LET
        \* the exception that leaves the try block of lines 106-134: the
        \* HTTPException of line 113 when the result is None
        RaisedInTry(returned) ==
            IF returned = None THEN [raised |-> TRUE, status_code |-> 404]
            ELSE [raised |-> FALSE, status_code |-> 0]
    IN
    /\ e2e_pc = "returned"
    /\ caller = "endpoint"
    /\ http_status' = IF RaisedInTry(e2e_result).raised THEN 500 ELSE 200
    /\ e2e_pc' = "idle"
    /\ ClearRequest
    /\ UNCHANGED <<embeddings_file, sop_texts, pa_system, batchVars, agentVars, indexVars,
                   http_patient>>

-----------------------------------------------------------------------------
(* The votes of the six checks, from their conditions *)

DiagnosisVote ==
    IF DiagnosisMatches(diagnosis_code, sop_upper) THEN "approve" ELSE "abstain"

ProcedureVote ==
    IF ProcedureCovered(procedure_code.s, sop_upper) THEN "approve" ELSE "abstain"

AgeVote ==
    IF AgeApproves(age.n, sop_upper) THEN "approve"
    ELSE IF AgeDenies(age.n, sop_upper) THEN "deny"
    ELSE "abstain"

LabVote ==
    LET v == ExtractLabValue(lab_results, "hba1c")
    IN  IF ~(IsSubstr("hba1c", lab_results) /\ FloatTruthy(v)) THEN "abstain"
        ELSE IF LabApproves(v, sop_upper) THEN "approve"
        ELSE IF LabDenies(v, sop_upper) THEN "deny"
        ELSE "abstain"

HypertensionVote ==
    IF HypertensionMatches(diagnosis_code, sop_context) THEN "approve" ELSE "abstain"

PreviousVote ==
    IF PreviousSupports(previous_procedures, sop_context) THEN "approve" ELSE "abstain"

CheckOrder == <<"diagnosis", "procedure", "age", "lab", "hypertension", "previous">>

\* the vote of the k-th check
Vote(k) ==
    CASE k = 1 -> DiagnosisVote
      [] k = 2 -> ProcedureVote
      [] k = 3 -> AgeVote
      [] k = 4 -> LabVote
      [] k = 5 -> HypertensionVote
      [] k = 6 -> PreviousVote

ApplyVote(d, v) ==
    IF v = "approve" THEN "Approved" ELSE IF v = "deny" THEN "Denied" ELSE d

\* the fold of the first n votes, from Denied
RECURSIVE FoldVotes(_)
FoldVotes(n) ==
    IF n = 0 THEN "Denied" ELSE ApplyVote(FoldVotes(n - 1), Vote(n))

\* after the lab check the decision is Denied by a vote of the age or lab check
ThresholdDenied == LabVote = "deny" \/ (AgeVote = "deny" /\ LabVote = "abstain")

-----------------------------------------------------------------------------
(* Claims about the decision engine (Spec) *)

\* C1 as stated: once the age check or the lab check has voted deny, an approve
\* vote of the hypertension check or of the previous-procedures check does not
\* flip the decision back, and the decision returned is Denied.
C1_ThresholdDenialIsFinal ==
    (pc = "done" /\ ThresholdDenied) => result.decision = "Denied"

\* C1 amended: once the age check or the lab check has voted deny, the decision
\* returned is Denied exactly when neither the hypertension check nor the
\* previous-procedures check votes approve; an approve vote of either of them
\* sets the decision back to Approved.
C1_ThresholdDenialStandsUnlessLaterApprove ==
    (pc = "done" /\ ThresholdDenied) =>
        (result.decision = "Denied" <=>
            (HypertensionVote = "abstain" /\ PreviousVote = "abstain"))

\* C1 witness: the age check voted deny, the previous-procedures check voted
\* approve afterwards, and Approved was returned.
C1_Witness ==
    /\ pc = "done"
    /\ AgeVote = "deny"
    /\ LabVote = "abstain"
    /\ PreviousVote = "approve"
    /\ result.decision = "Approved"

\* C2: at every position the running decision is the left-to-right fold of the
\* votes of the checks run so far (diagnosis, procedure, age, lab,
\* hypertension, previous), from Denied: approve sets Approved, deny (cast by
\* the age and lab checks only) sets Denied; the decision returned is the fold
\* of all six, which is Denied when every check abstains.
C2_DecisionIsFoldOfVotes ==
    LET
        \* how many checks have run when the agent is at a position
        ChecksDone ==
            CASE pc = "diagnosis" -> 0
              [] pc = "procedure" -> 1
              [] pc = "age" -> 2
              [] pc = "lab" -> 3
              [] pc = "hypertension" -> 4
              [] pc = "previous" -> 5
              [] pc \in {"compile", "done"} -> 6
              [] OTHER -> 0
    IN
    /\ pc \in {"diagnosis", "procedure", "age", "lab", "hypertension", "previous", "compile"}
          => decision = FoldVotes(ChecksDone)
    /\ pc = "done" => result.decision = FoldVotes(Len(CheckOrder))

\* C2 witness: a call returned where an approve vote of the diagnosis check was
\* overridden by a deny vote of the lab check.
C2_Witness ==
    /\ pc = "done"
    /\ DiagnosisVote = "approve"
    /\ LabVote = "deny"
    /\ HypertensionVote = "abstain"
    /\ PreviousVote = "abstain"
    /\ result.decision = "Denied"

EntriesOfVotes ==
    <<Entry("diagnosis", DiagnosisVote = "approve"),
      Entry("procedure", ProcedureVote = "approve")>>
    \o (IF AgeVote = "abstain" THEN <<>> ELSE <<Entry("age", AgeVote = "approve")>>)
    \o (IF LabVote = "abstain" THEN <<>> ELSE <<Entry("lab", LabVote = "approve")>>)
    \o (IF HypertensionVote = "abstain" THEN <<>> ELSE <<Entry("hypertension", TRUE)>>)
    \o (IF PreviousVote = "abstain" THEN <<>> ELSE <<Entry("previous", TRUE)>>)

C4_NeverRaises == pc # "raised"

\* C5 as stated: an empty diagnosis code (procedure code) gets a not-found
\* entry and no approve vote, so that a patient with empty codes and no other
\* check voting is Denied.
C5_EmptyCodeDoesNotApprove ==
    pc = "done" =>
        /\ diagnosis_code = "" => result.points[1] = Entry("diagnosis", FALSE)
        /\ procedure_code.s = "" => result.points[2] = Entry("procedure", FALSE)
        /\ (/\ diagnosis_code = ""
            /\ procedure_code.s = ""
            /\ \A k \in 3..6 : Vote(k) = "abstain") => result.decision = "Denied"

\* C20 as stated: once the lab check has run, every HbA1c value the pattern
\* parses, 0 included, that exceeds 7.0 under a text with ">7.0" has an
\* approving lab entry and the decision Approved, and every value below 6.0
\* under a text with "<6.0" and the denial marker has a denying lab entry and
\* the decision Denied, whatever the earlier checks voted.
C20_LabThresholdVotes ==
    pc = "hypertension" =>
        LET v == ExtractLabValue(lab_results, "hba1c") IN
        v # NoFloat =>
            /\ (FloatGt(v, 7) /\ IsSubstr(">7.0", sop_upper)) =>
                  /\ decision = "Approved"
                  /\ reasoning_points # <<>>
                  /\ reasoning_points[Len(reasoning_points)] = Entry("lab", TRUE)
            /\ (FloatLt(v, 6) /\ IsSubstr("<6.0", sop_upper) /\ IsSubstr("DENIED", sop_upper)) =>
                  /\ decision = "Denied"
                  /\ reasoning_points # <<>>
                  /\ reasoning_points[Len(reasoning_points)] = Entry("lab", FALSE)

\* the fold of the first n votes, from Denied, with one check left out
RECURSIVE FoldVotesBut(_, _)
FoldVotesBut(n, skip) ==
    IF n = 0 THEN "Denied"
    ELSE IF n = skip THEN FoldVotesBut(n - 1, skip)
    ELSE ApplyVote(FoldVotesBut(n - 1, skip), Vote(n))

\* lab_results names HbA1c and the pattern finds no number behind any marker
MarkerWithoutNumber ==
    IsSubstr("hba1c", lab_results) /\ ExtractLabValue(lab_results, "hba1c") = NoFloat

\* C21: when lab_results has the HbA1c marker and no number the pattern can
\* parse, the lab check leaves decision and trail as they are and goes on
\* without raising, and the decision returned is the one the other five
\* checks give, which is that of the same patient with no marker at all.
C21_UnparsableLabAbstains ==
    /\ [][(pc = "lab" /\ MarkerWithoutNumber) =>
             /\ pc' = "hypertension"
             /\ decision' = decision
             /\ reasoning_points' = reasoning_points]_vars
    /\ []((pc = "done" /\ MarkerWithoutNumber) =>
             /\ result.decision = FoldVotesBut(Len(CheckOrder), 4)
             /\ \A i \in 1..Len(result.points) : result.points[i].check # "lab")

\* C21 witness: a call with a marker and no number returned Approved by the
\* vote of another check.
C21_Witness ==
    /\ pc = "done"
    /\ MarkerWithoutNumber
    /\ result.decision = "Approved"

\* C22: a returned call whose diagnosis code or its first three characters
\* are in the text and whose HbA1c value exceeds 7.0 under a text with ">7.0"
\* is Approved whatever the age check voted, with a satisfied diagnosis entry
\* and a satisfied lab entry in the trail.
C22_DiagnosisAndLabApprove ==
    (/\ pc = "done"
     /\ DiagnosisMatches(diagnosis_code, sop_upper)
     /\ ExtractLabValue(lab_results, "hba1c") # NoFloat
     /\ FloatGt(ExtractLabValue(lab_results, "hba1c"), 7)
     /\ IsSubstr(">7.0", sop_upper)) =>
        /\ result.decision = "Approved"
        /\ \E i \in 1..Len(result.points) : result.points[i] = Entry("diagnosis", TRUE)
        /\ \E i \in 1..Len(result.points) : result.points[i] = Entry("lab", TRUE)

\* C22 witness: such a call returned Approved for a patient the age check
\* had denied.
C22_Witness ==
    /\ pc = "done"
    /\ DiagnosisMatches(diagnosis_code, sop_upper)
    /\ LabVote = "approve"
    /\ AgeVote = "deny"
    /\ result.decision = "Approved"

\* neither code of the patient is in the text and there are no lab results
NothingMatches ==
    /\ ~DiagnosisMatches(diagnosis_code, sop_upper)
    /\ ~ProcedureCovered(procedure_code.s, sop_upper)
    /\ lab_results = ""

\* C23 as stated: a returned call for a patient none of whose codes is in the
\* text and who has no lab results is Denied, every entry of its trail
\* unsatisfied.
C23_NoMatchIsDenied ==
    (pc = "done" /\ NothingMatches) =>
        /\ result.decision = "Denied"
        /\ \A i \in 1..Len(result.points) : ~result.points[i].sat

\* C23 amended: such a call is Denied exactly when none of the age,
\* hypertension and previous-procedures checks votes approve, and then every
\* entry of its trail is unsatisfied; an approve vote of one of the three
\* makes it Approved.
C23_NoMatchIsDeniedUnlessOtherApprove ==
    (pc = "done" /\ NothingMatches) =>
        /\ result.decision = "Denied" <=>
              (AgeVote # "approve" /\ HypertensionVote = "abstain" /\ PreviousVote = "abstain")
        /\ result.decision = "Denied" =>
              \A i \in 1..Len(result.points) : ~result.points[i].sat

\* C23 witness: a patient over 50 none of whose codes is in the text, with no
\* lab results, was Approved by the age check.
C23_Witness ==
    /\ pc = "done"
    /\ NothingMatches
    /\ AgeVote = "approve"
    /\ result.decision = "Approved"

\* C24: what a call returns is a function of its two arguments: the locals
\* are those the arguments give, the decision is the fold of the votes they
\* cast, the trail the entries of those votes, the reference that of the
\* text; and between calls the agent holds what it held before its first.
C24_ResultIsFunctionOfArguments ==
    LET
        \* the locals of _local_reasoning as the arguments of the call give them
        LocalsOfArguments ==
            /\ diagnosis_code = Upper(Get(patient_data, "diagnosis_code", PyStr("")).s)
            /\ procedure_code = Get(patient_data, "procedure_code", PyStr(""))
            /\ age = Get(patient_data, "age", PyInt(0))
            /\ lab_results = Lower(Get(patient_data, "lab_results", PyStr("")).s)
            /\ previous_procedures = Get(patient_data, "previous_procedures", PyStr(""))
            /\ sop_upper = SopUpper[sop_context]
    IN
    /\ pc = "done" =>
          /\ LocalsOfArguments
          /\ result = [outcome |-> "returned",
                       decision |-> FoldVotes(Len(CheckOrder)),
                       points |-> EntriesOfVotes,
                       applied_sop |-> SopReference[sop_context]]
    /\ pc = "idle" => AgentInit

\* C24 witness: a call has returned a decision and its trail.
C24_Witness ==
    /\ pc = "done"
    /\ result.outcome = "returned"
    /\ Len(result.points) = Len(CheckOrder)

-----------------------------------------------------------------------------
(* Claims about the vector index (IndexSpec, PersistSpec) *)

\* C6 as stated: search(query, k) on an index of N >= 1 documents returns
\* exactly min(k, N) distances, offsets and names, by non-decreasing distance,
\* each offset one of a document of the index.
C6_SearchReturnsMinKN ==
    (last.op = "search" /\ fm_index.built /\ ntotal(fm_index) >= 1) =>
        /\ last.outcome = "ok"
        /\ Len(last.value.distances) = Min(last.args.k, ntotal(fm_index))
        /\ Len(last.value.indices) = Min(last.args.k, ntotal(fm_index))
        /\ Len(last.value.doc_names) = Min(last.args.k, ntotal(fm_index))
        /\ \A i \in 1..(Len(last.value.distances) - 1) :
              last.value.distances[i] <= last.value.distances[i + 1]
        /\ \A i \in 1..Len(last.value.indices) :
              last.value.indices[i] \in 0..(ntotal(fm_index) - 1)

\* C7 as stated: search raises when the index was never built or loaded and
\* when it was built from zero vectors.
C7_SearchOnEmptyIndexRaises ==
    (last.op = "search" /\ (~fm_index.built \/ ntotal(fm_index) = 0)) =>
        last.outcome = "raised"

\* C8 as stated: after every successful build_index or load_index the index
\* holds as many vectors as document_map has entries, and after a build
\* document_map maps offset i to the i-th name of that build.
C8_MapMatchesIndex ==
    (last.op \in {"build_index", "load_index"} /\ last.outcome = "ok") =>
        /\ DOMAIN document_map = 0..(ntotal(fm_index) - 1)
        /\ last.op = "build_index" =>
              /\ Len(last.args.names.names) = ntotal(fm_index)
              /\ \A i \in DOMAIN document_map :
                    document_map[i].name = last.args.names.names[i + 1]

\* C9 as stated: build_index with a list of names whose length differs from
\* the number of vectors raises.
C9_NameCountMismatchRaises ==
    (/\ last.op = "build_index"
     /\ last.args.names.given
     /\ Len(last.args.names.names) # last.args.rows) => last.outcome = "raised"

\* C10: build_index with vectors of another dimension than embedding_dim
\* raises and leaves index and document_map as they were before the call.
C10_DimensionMismatchLeavesManager ==
    [][(last'.op = "build_index" /\ last'.args.dim # embedding_dim) =>
           /\ last'.outcome = "raised"
           /\ fm_index' = fm_index
           /\ document_map' = document_map]_vars

\* C10 witness: a build with vectors of another dimension was refused while
\* the manager held a built index and a document map.
C10_Witness ==
    /\ last.op = "build_index"
    /\ last.args.dim # embedding_dim
    /\ last.outcome = "raised"
    /\ fm_index.built
    /\ ntotal(fm_index) > 0
    /\ DOMAIN document_map # {}

\* a search that follows at once a successful build_index with one name a vector
BuildThenSearch ==
    /\ last.op = "build_index"
    /\ last.outcome = "ok"
    /\ last.args.names.given
    /\ Len(last.args.names.names) = last.args.rows
    /\ last'.op = "search"

\* C18 as stated: a search that follows build_index(vectors, ids) with a
\* query equal to vectors[i] returns ids[i] first, at distance 0, for every i,
\* identical vectors included.
C18_OwnVectorIsTopResult ==
    [][BuildThenSearch =>
          \A i \in 1..ntotal(fm_index) :
              last'.args.query = fm_index.vectors[i] =>
                  /\ last'.outcome = "ok"
                  /\ last'.value.distances[1] = 0
                  /\ last'.value.doc_names[1] = last.args.names.names[i]]_vars

\* C18 amended: a search that follows build_index(vectors, ids) with a query
\* equal to vectors[i] returns first, at distance 0, the id of an indexed
\* vector identical to the query: ids[i] itself when no other indexed vector
\* equals vectors[i].
C18_AnIdenticalVectorIsTopResult ==
    [][BuildThenSearch =>
          \A i \in 1..ntotal(fm_index) :
              last'.args.query = fm_index.vectors[i] =>
                  /\ last'.outcome = "ok"
                  /\ last'.value.distances[1] = 0
                  /\ \E j \in 1..ntotal(fm_index) :
                        /\ fm_index.vectors[j] = last'.args.query
                        /\ last'.value.doc_names[1] = last.args.names.names[j]]_vars

\* C18 witness: an index of two identical vectors under two names was
\* searched with that vector and answered with the first name at distance 0.
C18_Witness ==
    /\ last.op = "search"
    /\ last.outcome = "ok"
    /\ ntotal(fm_index) = 2
    /\ fm_index.vectors[1] = fm_index.vectors[2]
    /\ last.args.query = fm_index.vectors[2]
    /\ DOMAIN document_map = {0, 1}
    /\ document_map[0].name # document_map[1].name
    /\ last.value.distances[1] = 0
    /\ last.value.doc_names[1] = document_map[0].name

\* C19: after save_index the files, and after load_index the manager, hold an
\* index and a document map that answer every query and every k with the
\* same names in the same order at the same distances as the other does; the
\* files change only by save_index, so the manager that loads answers as the
\* manager that saved.
C19_RoundTripKeepsTopK ==
    LET
        \* what search(query, k) returns of an index and a document map
        TopK(index, map, query, k) ==
            LET found == Nearest(index, query, k)
                indices == Labels(index, found, k)
            IN  [distances |-> Distances(index, query, found, k),
                 indices |-> indices,
                 doc_names |-> DocNamesOf(map, indices)]
    IN
    (last.op \in {"save_index", "load_index"} /\ last.outcome = "ok") =>
        /\ metadata_file.exists
        /\ \A q \in Queries, k \in Ks :
              TopK(fm_index, document_map, q, k)
                  = TopK(index_file.index, metadata_file.document_map, q, k)

\* C19 witness: an index of two vectors with their names was loaded from the
\* files.
C19_Witness ==
    /\ last.op = "load_index"
    /\ last.outcome = "ok"
    /\ ntotal(fm_index) = 2
    /\ DOMAIN document_map = {0, 1}
    /\ index_file.index = fm_index

\* C11 as stated: load_index from files whose document map and index differ
\* in count, the metadata file missing included, raises, and no load_index
\* completes with a document map that does not match the index it loaded.
C11_LoadChecksIntegrity ==
    last.op = "load_index" =>
        /\ (/\ index_file.exists
            /\ \/ ~metadata_file.exists
               \/ DOMAIN metadata_file.document_map # 0..(ntotal(index_file.index) - 1))
           => last.outcome = "raised"
        /\ last.outcome = "ok" => DOMAIN document_map = 0..(ntotal(fm_index) - 1)

-----------------------------------------------------------------------------
(* Claims about the pipeline (PipelineSpec) *)

\* C12 as stated: when the index holds no document, process_prior_authorization
\* returns no result and hence no decision, for every patient id.
C12_EmptyIndexFailsRequest ==
    LET
        \* the index the pipeline searches holds no document
        NoDocuments ==
            \/ ~pa_system.faiss_manager
            \/ ~fm_index.built
            \/ ntotal(fm_index) = 0
    IN
    (e2e_pc = "returned" /\ NoDocuments) => e2e_result.kind # "dict"

\* C13 as stated: when log_decision was asked and logger.log_decision raised,
\* process_prior_authorization still returns the complete result with the
\* decision of the agent, its log_id null or absent.
C13_SinkFailureSparesRequest ==
    (e2e_pc = "returned" /\ log_decision /\ sink = "raised") =>
        /\ e2e_result.kind = "dict"
        /\ e2e_result.decision = decision_result.decision
        /\ e2e_result.log_id.kind \in {"none", "absent"}

\* line 77: what process_prior_authorization returns for an id of no row
NotFound == None

C17_MissingTextStillDecides ==
    (e2e_pc = "returned" /\ best_sop # "" /\ best_sop \notin DOMAIN sop_texts) =>
        /\ sop_text = NoSopContent
        /\ e2e_result.kind = "dict"
        /\ e2e_result.processing_status = "completed"
        /\ e2e_result.decision \in {"Approved", "Denied"}

\* between two patients every id seen so far is filed once, and the summary
\* counts what is filed
BatchAccounts ==
    LET
        \* how often x is an element of the list l
        Count(l, x) == Cardinality({i \in 1..Len(l) : l[i] = x})
        ProcessedIds == [i \in 1..Len(results.processed) |-> results.processed[i].patient_id]
    IN
    (batch_pc \in {"loop", "done"} /\ e2e_pc = "idle") =>
        /\ batch_i - 1 <= Len(patient_ids)
        /\ \A id \in PatientIds :
              Count(SubSeq(patient_ids, 1, batch_i - 1), id)
                  = Count(ProcessedIds, id) + Count(results.failed, id)
        /\ results.summary.approved + results.summary.denied = Len(results.processed)
        /\ results.summary.approved
              = Cardinality({i \in 1..Len(results.processed) :
                                results.processed[i].decision = "Approved"})
        /\ results.summary.failed = Len(results.failed)
        /\ batch_pc = "done" => batch_i - 1 = Len(patient_ids)

\* inside the loop the call for the current patient is under way or over:
\* nothing stops the loop short of the end of the list
BatchGoesOn ==
    batch_pc = "loop" =>
        \/ e2e_pc = "idle"
        \/ e2e_pc = "returned" /\ caller = "batch"
        \/ /\ e2e_pc = "engine"
           /\ caller = "batch"
           /\ pc \in {"extract", "diagnosis", "procedure", "age", "lab", "hypertension",
                      "previous", "compile", "done", "raised"}

\* C15: batch_process files every id of its list exactly as often as the list
\* holds it, as a result in processed or as an id in failed, whatever failed
\* for single patients; approved + denied is the number of results and failed
\* the number of failed ids; the loop is never left before the end of the list.
C15_BatchFilesEveryId == BatchAccounts /\ BatchGoesOn

\* C15 witness: a batch of two ids has returned, its first patient failed and
\* its second has a result.
C15_Witness ==
    /\ batch_pc = "done"
    /\ Len(patient_ids) = 2
    /\ results.failed = <<patient_ids[1]>>
    /\ Len(results.processed) = 1
    /\ results.processed[1].patient_id = patient_ids[2]

\* C25: once the service has started, no step of process_prior_authorization
\* or of batch_process, whether the request ends in a result or in a failure,
\* changes the vector index, its document_map or the policy-text mapping.
C25_RequestsLeaveArtifacts ==
    [][e2e_pc # "down" =>
          UNCHANGED <<fm_index, document_map, embedding_dim, index_file, metadata_file,
                      sop_texts>>]_vars

\* C25 witness: over a loaded index a batch has returned with one patient
\* failed and one processed.
C25_Witness ==
    /\ fm_index.built
    /\ batch_pc = "done"
    /\ Len(results.failed) = 1
    /\ Len(results.processed) = 1

\* C26: every non-null result of process_prior_authorization carries a
\* decision that is Approved or Denied and is the agent's, the agent's trail,
\* the name of the top document of the search with its distance, and the
\* query text built from the patient's row.
C26_ResultIsComplete ==
    (e2e_pc = "returned" /\ e2e_result # None) =>
        /\ e2e_result.kind = "dict"
        /\ e2e_result.decision \in {"Approved", "Denied"}
        /\ e2e_result.decision = decision_result.decision
        /\ e2e_result.reasoning = decision_result.points
        /\ Len(e2e_result.reasoning) >= 2
        /\ e2e_result.retrieved_sop = last.value.doc_names[1]
        /\ e2e_result.sop_similarity_score = last.value.distances[1]
        /\ e2e_result.query_context = build_query_context(get_patient(e2e_result.patient_id))
        /\ e2e_result.processing_status = "completed"

\* C26 witness: a request for the first seeded patient has returned an
\* approval with the document it was decided on.
C26_Witness ==
    /\ e2e_pc = "returned"
    /\ e2e_result # None
    /\ e2e_result.patient_id = 1
    /\ e2e_result.decision = "Approved"
    /\ e2e_result.retrieved_sop = "diabetes.pdf"
    /\ e2e_result.query_context =
          "diagnosis E11.9 procedure 99214 age 45 years female labs HbA1c 6.5 Cholesterol 190 BUN 15 previous procedures 99213;81001"


-----------------------------------------------------------------------------
(* Claims about the audit log (LoggerSpec, ConcurrentLoggerSpec) *)

Range(l) == {l[i] : i \in 1..Len(l)}

\* the timestamps of l never rise from one record to the next
NewestFirst(l) ==
    \A i \in 1..(Len(l) - 1) : ~StrLess(SortKey(l[i]), SortKey(l[i + 1]))

C28_StatsMatchLog ==
    lg_pc[1] = "idle" =>
        /\ get_decision_stats.total = now
        /\ get_decision_stats.total = Len(log_file.logs)
        /\ get_decision_stats.Approved = CountDecision(log_file.logs, "Approved")
        /\ get_decision_stats.Denied = CountDecision(log_file.logs, "Denied")

\* C29: when two log_decision calls that were under way at the same time
\* have both returned, the log holds both records and the statistics count
\* both.
C29_NoRecordLost ==
    (lg_pc[1] = "done" /\ lg_pc[2] = "done") =>
        /\ lg_record[1] \in Range(log_file.logs)
        /\ lg_record[2] \in Range(log_file.logs)
        /\ stats_file.stats.total >= 2
        /\ \A d \in {"Approved", "Denied"} :
              stats_file.stats[d] >= Cardinality({p \in Procs : lg_record[p].decision = d})

-----------------------------------------------------------------------------
(* Claims about the endpoint (ApiSpec) *)

\* C30: a request for a patient id of no row, made to a service that has its
\* pipeline object, is answered with 404, and a request is answered with 500
\* only when the decision engine or the logger raised while it was processed.
C30_UnknownPatientGets404 ==
    /\ []((http_status # 0 /\ pa_system.exists /\ get_patient(http_patient) = None) =>
             http_status = 404)
    /\ [][(e2e_pc = "returned" /\ caller = "endpoint" /\ http_status' = 500) =>
             (decision_result.outcome = "raised" \/ sink = "raised")]_vars

-----------------------------------------------------------------------------
(* Specifications *)

\* a call with any patient dict and any policy text
Call ==
    /\ pc = "idle"
    /\ \E p \in Patients, sop \in SopTexts : MakeAuthorizationDecision(p, sop)

Init == AgentInit /\ IndexInit /\ PipeInit /\ embeddings_file = "ok" /\ LogInit /\ HttpInit

\* the decision engine
Next ==
    \/ Call /\ UNCHANGED <<indexVars, pipeVars, logVars, httpVars>>
    \/ ExtractFields /\ UNCHANGED <<indexVars, pipeVars, logVars, httpVars>>
    \/ CheckDiagnosis /\ UNCHANGED <<indexVars, pipeVars, logVars, httpVars>>
    \/ CheckProcedure /\ UNCHANGED <<indexVars, pipeVars, logVars, httpVars>>
    \/ CheckAge /\ UNCHANGED <<indexVars, pipeVars, logVars, httpVars>>
    \/ CheckLab /\ UNCHANGED <<indexVars, pipeVars, logVars, httpVars>>
    \/ CheckHypertension /\ UNCHANGED <<indexVars, pipeVars, logVars, httpVars>>
    \/ CheckPrevious /\ UNCHANGED <<indexVars, pipeVars, logVars, httpVars>>
    \/ CompileResult /\ UNCHANGED <<indexVars, pipeVars, logVars, httpVars>>
    \/ FinishCall /\ UNCHANGED <<indexVars, pipeVars, logVars, httpVars>>

Spec == Init /\ [][Next]_vars

\* the vector index in memory
IndexNext ==
    \/ \E e \in EmbeddingArrays, n \in NameLists : BuildIndex(e, n) /\ UNCHANGED <<agentVars, pipeVars, logVars, httpVars>>
    \/ \E q \in Queries, k \in Ks : Search(q, k) /\ UNCHANGED <<agentVars, pipeVars, logVars, httpVars>>

IndexSpec == Init /\ [][IndexNext]_vars

\* the vector index and its persisted files
PersistArrays ==
    {Array(<<>>, EmbeddingDim), Array(<<ZeroVec>>, EmbeddingDim),
     Array(<<UnitVec, OnesVec>>, EmbeddingDim), Array(<<UnitVec, UnitVec>>, EmbeddingDim)}
PersistNames ==
    {NoNames, Names(<<"diabetes.pdf">>), Names(<<"cardiology.pdf">>),
     Names(<<"diabetes.pdf", "cardiology.pdf">>)}

PersistNext ==
    \/ \E e \in PersistArrays, n \in PersistNames : BuildIndex(e, n) /\ UNCHANGED <<agentVars, pipeVars, logVars, httpVars>>
    \/ \E q \in Queries, k \in Ks : Search(q, k) /\ UNCHANGED <<agentVars, pipeVars, logVars, httpVars>>
    \/ SaveIndex /\ UNCHANGED <<agentVars, pipeVars, logVars, httpVars>>
    \/ LoadIndex /\ UNCHANGED <<agentVars, pipeVars, logVars, httpVars>>

PersistSpec == Init /\ [][PersistNext]_vars

\* the pipeline: the service starts on whatever the files hold, then serves
\* single requests and batches
PipelineInit == AgentInit /\ DiskInit /\ PipeInit /\ LogInit /\ HttpInit

PipelineNext ==
    \/ \E texts \in TextStores : Startup(texts) /\ UNCHANGED <<logVars, httpVars>>
    \/ \E id \in PatientIds, log \in BOOLEAN : ProcessPriorAuthorization(id, log) /\ UNCHANGED <<logVars, httpVars>>
    \/ ExtractFields /\ UNCHANGED <<indexVars, pipeVars, logVars, httpVars>>
    \/ CheckDiagnosis /\ UNCHANGED <<indexVars, pipeVars, logVars, httpVars>>
    \/ CheckProcedure /\ UNCHANGED <<indexVars, pipeVars, logVars, httpVars>>
    \/ CheckAge /\ UNCHANGED <<indexVars, pipeVars, logVars, httpVars>>
    \/ CheckLab /\ UNCHANGED <<indexVars, pipeVars, logVars, httpVars>>
    \/ CheckHypertension /\ UNCHANGED <<indexVars, pipeVars, logVars, httpVars>>
    \/ CheckPrevious /\ UNCHANGED <<indexVars, pipeVars, logVars, httpVars>>
    \/ CompileResult /\ UNCHANGED <<indexVars, pipeVars, logVars, httpVars>>
    \/ ProcessFinish /\ UNCHANGED <<logVars, httpVars>>
    \/ Return /\ UNCHANGED <<logVars, httpVars>>
    \/ \E ids \in IdLists(MaxBatch) : BatchProcess(ids) /\ UNCHANGED <<logVars, httpVars>>
    \/ BatchCall /\ UNCHANGED <<logVars, httpVars>>
    \/ BatchCollect /\ UNCHANGED <<logVars, httpVars>>
    \/ BatchReturn /\ UNCHANGED <<logVars, httpVars>>
    \/ BatchDone /\ UNCHANGED <<logVars, httpVars>>

PipelineSpec == PipelineInit /\ [][PipelineNext]_vars

\* the service behind its endpoint: it starts on whatever the files hold and
\* answers one request after the other
ApiNext ==
    \/ \E texts \in TextStores : Startup(texts) /\ UNCHANGED <<logVars, httpVars>>
    \/ \E id \in PatientIds : AuthorizeProcedure(id) /\ UNCHANGED logVars
    \/ ExtractFields /\ UNCHANGED <<indexVars, pipeVars, logVars, httpVars>>
    \/ CheckDiagnosis /\ UNCHANGED <<indexVars, pipeVars, logVars, httpVars>>
    \/ CheckProcedure /\ UNCHANGED <<indexVars, pipeVars, logVars, httpVars>>
    \/ CheckAge /\ UNCHANGED <<indexVars, pipeVars, logVars, httpVars>>
    \/ CheckLab /\ UNCHANGED <<indexVars, pipeVars, logVars, httpVars>>
    \/ CheckHypertension /\ UNCHANGED <<indexVars, pipeVars, logVars, httpVars>>
    \/ CheckPrevious /\ UNCHANGED <<indexVars, pipeVars, logVars, httpVars>>
    \/ CompileResult /\ UNCHANGED <<indexVars, pipeVars, logVars, httpVars>>
    \/ ProcessFinish /\ UNCHANGED <<logVars, httpVars>>
    \/ Respond /\ UNCHANGED logVars

ApiSpec == PipelineInit /\ [][ApiNext]_vars

\* the logger with one caller: every log_decision runs from start to end
\* before the next begins
LoggerNext ==
    \/ \E record \in DecisionRecords : LogStart(1, record) /\ UNCHANGED <<agentVars, indexVars, pipeVars, httpVars>>
    \/ LogWrite(1) /\ UNCHANGED <<agentVars, indexVars, pipeVars, httpVars>>
    \/ StatsRead(1) /\ UNCHANGED <<agentVars, indexVars, pipeVars, httpVars>>
    \/ StatsWrite(1) /\ UNCHANGED <<agentVars, indexVars, pipeVars, httpVars>>
    \/ LogReturn(1) /\ UNCHANGED <<agentVars, indexVars, pipeVars, httpVars>>
    \/ \E patient \in {None, PyInt(1)}, dec \in {"", "Approved"} :
          QueryLogs(patient, dec) /\ UNCHANGED <<agentVars, indexVars, pipeVars, httpVars>>
    \/ GetDecisionStats /\ UNCHANGED <<agentVars, indexVars, pipeVars, httpVars>>

LoggerSpec == Init /\ [][LoggerNext]_vars

ConcurrentLoggerNext ==
    \/ \E p \in Procs, record \in {record \in DecisionRecords : record.timestamp = Absent} :
          LogStart(p, record) /\ UNCHANGED <<agentVars, indexVars, pipeVars, httpVars>>
    \/ \E p \in Procs : LogWrite(p) /\ UNCHANGED <<agentVars, indexVars, pipeVars, httpVars>>
    \/ \E p \in Procs : StatsRead(p) /\ UNCHANGED <<agentVars, indexVars, pipeVars, httpVars>>
    \/ \E p \in Procs : StatsWrite(p) /\ UNCHANGED <<agentVars, indexVars, pipeVars, httpVars>>
    \/ \E p \in Procs : LogReturn(p) /\ UNCHANGED <<agentVars, indexVars, pipeVars, httpVars>>

ConcurrentLoggerSpec == Init /\ [][ConcurrentLoggerNext]_vars

====
